---- MODULE Spec2Model ----
(***************************************************************************)
(* Model of lib/domain.js (node-mogile): the download path                 *)
(* Domain.prototype.getFile and the upload path Domain.prototype.storeFile *)
(* together with the event sources they are wired to: the tracker (send),  *)
(* the HTTP response (a Readable), the HTTP request, and the local file    *)
(* streams.                                                                *)
(*                                                                         *)
(* Scheduling follows the Node.js event loop: a handler runs to            *)
(* completion; callbacks queued with process.nextTick (the variable ticks) *)
(* all run before the loop returns to I/O, so every I/O event below is     *)
(* guarded by ticks = <<>>.                                                *)
(***************************************************************************)
EXTENDS Integers, Sequences, FiniteSets, TLC

\* ------------------------------------------------------------- bounds
MaxChunks == 3        \* chunks the storage node delivers in one download
MaxChunkLen == 2      \* length of one chunk
HighWaterMark == 2    \* the sink reports "not drained" at this many buffered bytes
MaxPaths == 2         \* largest count in a GET_PATHS response
MaxSize == 2          \* largest size of an uploaded file, one byte per chunk
SpinPhases == 2       \* the busy re-check loop is observed modulo this many phases

Undefined == <<"undefined", 0>>

\* The byte count of a callback invoked with an error only: callback(err).
NoBytes == -1

VARIABLES
    \* ---- tracker
    sent,           \* commands handed to mogile.send, in order
    \* ---- getFile closure (lines 119-182)
    dpc,            \* where the download is
    paths,          \* result of getPaths
    bytes_written,  \* line 122
    paused,         \* line 123
    response,       \* line 124: TRUE once response = res
    cbs,            \* invocations of getFile's callback, in order
    \* ---- the GET and its response stream (http.IncomingMessage)
    arrived,        \* chunks the network has delivered to res so far
    resBuf,         \* chunks buffered in res, not yet emitted as 'data'
    resEnded,       \* end-of-data has been pushed to res
    complete,       \* res.complete: the HTTP message was received in full
    flowing,        \* res is in flowing mode (not paused)
    resDead,        \* res was destroyed by a transport error
    endScheduled,   \* 'end' has been scheduled or emitted
    getErrored,     \* the GET emitted 'error'
    \* ---- the sink (fs.WriteStream)
    written,        \* chunks accepted by stream.write, in order
    sinkQ,          \* chunks accepted and not yet flushed to disk
    needDrain,      \* a write returned false and 'drain' is owed
    sinkEnding,     \* stream.end() has been called
    sinkDestroyed,  \* the sink failed
    sinkClosed,     \* the sink finished and closed
    \* ---- scheduler
    ticks,          \* process.nextTick queue
    recheck,        \* phase of the finished() re-check loop
    \* ---- storeFile, one record per call (lines 193-248)
    up

resVars == <<arrived, resBuf, resEnded, complete, flowing, resDead, endScheduled>>
sinkVars == <<written, sinkQ, needDrain, sinkEnding, sinkDestroyed, sinkClosed>>
dvars == <<dpc, paths, bytes_written, paused, response, cbs, getErrored, resVars,
           sinkVars, ticks, recheck>>

vars == <<sent, dvars, up>>

RECURSIVE Total(_)
Total(lens) == IF lens = <<>> THEN 0 ELSE Head(lens) + Total(Tail(lens))

\* A chunk is a Buffer holding len bytes of the served object, starting after
\* byte off.  line 146: data.length
Length(chunk) == chunk.len

\* The chunk the storage node sends after the chunks in s: the next n bytes.
NextChunk(s, n) == [off |-> Total([i \in 1..Len(s) |-> s[i].len]), len |-> n]

\* the number of bytes held by a sequence of chunks
SumSeq(s) == Total([i \in 1..Len(s) |-> Length(s[i])])

\* the chunks of a body sent as pieces of the given lengths
Chunked(lens) ==
    [i \in 1..Len(lens) |-> [off |-> Total(SubSeq(lens, 1, i - 1)), len |-> lens[i]]]

Keys == {"k1", "k2"}
Classes == {"c1"}

\* The storeFile calls in flight; calls share nothing but the tracker client.
Calls == {"a", "b"}
Urls == [i \in 1..MaxPaths |-> <<"url", i>>]

\* ------------------------------------------------------------- getPaths

\* JavaScript truthiness of the noverify argument, a number here (getFile passes 0).
Truthy(v) == v # 0

\* lines 43-46: the argument mapping of GET_PATHS
GetPathsArgs(key, noverify) ==
    [cmd |-> "GET_PATHS", key |-> key, noverify |-> IF Truthy(noverify) THEN "1" ELSE "0"]

\* A tracker response: a count and the set of indices i for which path<i> is present.
Responses == [paths : 0..MaxPaths, have : SUBSET (1..MaxPaths)]

\* lines 51-54: the loop pushes response['path' + i] for i = 1..response['paths'];
\* a missing key reads as undefined.
PathsOf(resp) ==
    [i \in 1..resp.paths |-> IF i \in resp.have THEN Urls[i] ELSE Undefined]

\* paths[0] in the source: the first element, undefined for an empty array.
FirstPath(ps) == IF Len(ps) = 0 THEN Undefined ELSE ps[1]

\* ------------------------------------------------------------- the sink

\* stream.write(data) accepts the chunk unless the stream is ending or destroyed.
WriteAccepted == ~sinkEnding /\ ~sinkDestroyed

\* The return value of stream.write(data): buffered length below the mark.
Drained(chunk) == WriteAccepted /\ SumSeq(sinkQ) + Length(chunk) < HighWaterMark

\* lines 158, 166: stream.end()
StreamEnd == sinkEnding' = TRUE

\* callback(err) and callback(null, bytes)
Err(e) == [err |-> e, bytes |-> NoBytes]
Ok(n) == [err |-> "null", bytes |-> n]

\* an invocation of getFile's callback
Callback(r) == cbs' = Append(cbs, r)

\* ------------------------------------------------------------- handlers

\* lines 145-152 with res.pause() left out: the flag is set, the source keeps flowing.
DataHandlerNoPause(chunk, tk) ==
    /\ bytes_written' = bytes_written + Length(chunk)
    /\ IF WriteAccepted
          THEN /\ written' = Append(written, chunk)
               /\ sinkQ' = Append(sinkQ, chunk)
               /\ needDrain' = (needDrain \/ ~Drained(chunk))
               /\ UNCHANGED <<sinkDestroyed, cbs>>
          ELSE /\ UNCHANGED <<written, sinkQ, needDrain>>
               /\ sinkDestroyed' = TRUE
               /\ IF sinkDestroyed THEN UNCHANGED cbs
                                   ELSE Callback(Err("sink"))
    /\ paused' = (paused \/ ~Drained(chunk))
    /\ UNCHANGED flowing
    /\ ticks' = tk

\* lines 145-152 with the counter advanced by one per chunk instead of by data.length.
DataHandlerCountsChunks(chunk, tk) ==
    /\ bytes_written' = bytes_written + 1
    /\ IF WriteAccepted
          THEN /\ written' = Append(written, chunk)
               /\ sinkQ' = Append(sinkQ, chunk)
               /\ needDrain' = (needDrain \/ ~Drained(chunk))
               /\ UNCHANGED <<sinkDestroyed, cbs>>
          ELSE /\ UNCHANGED <<written, sinkQ, needDrain>>
               /\ sinkDestroyed' = TRUE
               /\ IF sinkDestroyed THEN UNCHANGED cbs
                                   ELSE Callback(Err("sink"))
    /\ IF ~Drained(chunk)
          THEN flowing' = FALSE /\ paused' = TRUE
          ELSE UNCHANGED <<flowing, paused>>
    /\ ticks' = tk

\* lines 145-152 with every chunk written at the start of the file instead of
\* after the chunks before it.
DataHandlerWritesAtFront(chunk, tk) ==
    /\ bytes_written' = bytes_written + Length(chunk)
    /\ IF WriteAccepted
          THEN /\ written' = <<chunk>> \o written
               /\ sinkQ' = Append(sinkQ, chunk)
               /\ needDrain' = (needDrain \/ ~Drained(chunk))
               /\ UNCHANGED <<sinkDestroyed, cbs>>
          ELSE /\ UNCHANGED <<written, sinkQ, needDrain>>
               /\ sinkDestroyed' = TRUE
               /\ IF sinkDestroyed THEN UNCHANGED cbs
                                   ELSE Callback(Err("sink"))
    /\ IF ~Drained(chunk)
          THEN flowing' = FALSE /\ paused' = TRUE
          ELSE UNCHANGED <<flowing, paused>>
    /\ ticks' = tk

\* lines 145-152: res.on('data').  tk is the tick queue left by the caller.
\* A write after end() makes the sink emit 'error' (line 170-172).
DataHandler(chunk, tk) ==
    /\ bytes_written' = bytes_written + Length(chunk)
    /\ IF WriteAccepted
          THEN /\ written' = Append(written, chunk)
               /\ sinkQ' = Append(sinkQ, chunk)
               /\ needDrain' = (needDrain \/ ~Drained(chunk))
               /\ UNCHANGED <<sinkDestroyed, cbs>>
          ELSE /\ UNCHANGED <<written, sinkQ, needDrain>>
               /\ sinkDestroyed' = TRUE
               /\ IF sinkDestroyed THEN UNCHANGED cbs
                                   ELSE Callback(Err("sink"))
    /\ IF ~Drained(chunk)
          THEN flowing' = FALSE /\ paused' = TRUE
          ELSE UNCHANGED <<flowing, paused>>
    /\ ticks' = tk

\* lines 154-161: finished().  tk is the tick queue without the running tick.
Finished(tk) ==
    IF paused
       THEN /\ ticks' = Append(tk, "finished")
            /\ recheck' = (recheck + 1) % SpinPhases
            /\ UNCHANGED <<sinkEnding, cbs>>
       ELSE /\ StreamEnd
            /\ Callback(Ok(bytes_written))
            /\ ticks' = tk
            /\ UNCHANGED recheck

\* lines 173-178: stream.on('drain')
DrainHandler ==
    IF paused
       THEN /\ IF ~complete
                  THEN flowing' = TRUE /\ ticks' = Append(ticks, "resume")
                  ELSE UNCHANGED <<flowing, ticks>>
            /\ paused' = FALSE
       ELSE UNCHANGED <<flowing, ticks, paused>>

\* ------------------------------------------------------------- storeFile

\* A call that has not been made yet.
IdleUpload ==
    [pc |-> "idle", key |-> "", class |-> "", sent |-> <<>>, txn |-> Undefined,
     size |-> 0, srcLeft |-> 0, body |-> 0, piped |-> FALSE, srcEnded |-> FALSE,
     reqEnded |-> FALSE, reqErrored |-> FALSE, putAcked |-> FALSE,
     close |-> "none", cbs |-> <<>>]

\* line 206: the response of CREATE_OPEN for call c (devid, fid, path)
Txn(c) == <<"txn", c>>

\* lines 197-200: the argument mapping of CREATE_OPEN
CreateOpenArgs(key, class) ==
    [cmd |-> "CREATE_OPEN", key |-> key, class |-> class, txn |-> Undefined]

\* lines 232-238: the argument mapping of CREATE_CLOSE
CreateCloseArgs(key, class, txn) ==
    [cmd |-> "CREATE_CLOSE", key |-> key, class |-> class, txn |-> txn]

\* line 228: the local file of upload c, size bytes, each byte identified by
\* its position in the file
FileBytes(c) == [i \in 1..up[c].size |-> i]

\* line 229: pipe hands the chunks of the source to the PUT in order, so the
\* body carried so far is the first body bytes of the file
PutBody(c) == SubSeq(FileBytes(c), 1, up[c].body)

\* The storage node holds the whole body of upload c and the tracker has
\* registered it under the key (line 239-243).
Stored(c) == up[c].close = "done" /\ up[c].putAcked /\ ~up[c].reqErrored

\* A download runs either before any upload, against whatever the store
\* holds, or after one finished upload, for the key that upload stored.
Downloadable(key) ==
    /\ \A c \in Calls : up[c].pc = "idle" \/ (Stored(c) /\ up[c].key = key)
    /\ \A c, d \in Calls : (up[c].pc # "idle" /\ up[d].pc # "idle") => c = d

\* the uploads whose object the running download is served (line 143)
Serving == {c \in Calls : Stored(c) /\ sent # <<>> /\ up[c].key = sent[1].key}

\* The storage node serves the stored object: n more bytes exist after the
\* chunks that have arrived.  An object stored before the run has any length.
ObjectHas(n) == \A c \in Serving : SumSeq(arrived) + n <= Len(PutBody(c))

\* ------------------------------------------------------------- actions

Init ==
    /\ sent = <<>>
    /\ dpc = "idle"
    /\ paths = <<>>
    /\ bytes_written = 0
    /\ paused = FALSE
    /\ response = FALSE
    /\ cbs = <<>>
    /\ arrived = <<>>
    /\ resBuf = <<>>
    /\ resEnded = FALSE
    /\ complete = FALSE
    /\ flowing = FALSE
    /\ resDead = FALSE
    /\ endScheduled = FALSE
    /\ getErrored = FALSE
    /\ written = <<>>
    /\ sinkQ = <<>>
    /\ needDrain = FALSE
    /\ sinkEnding = FALSE
    /\ sinkDestroyed = FALSE
    /\ sinkClosed = FALSE
    /\ ticks = <<>>
    /\ recheck = 0
    /\ up = [c \in Calls |-> IdleUpload]

\* lines 119-126 with getPaths(key, 1, ...): verification switched off.
GetFileNoVerify ==
    /\ dpc = "idle"
    /\ \E key \in Keys : Downloadable(key) /\ sent' = Append(sent, GetPathsArgs(key, 1))
    /\ dpc' = "paths"
    /\ UNCHANGED <<up, paths, bytes_written, paused, response, cbs, getErrored, resVars,
                   sinkVars, ticks, recheck>>

\* lines 119-126: getFile(key, local, callback) calls getPaths(key, 0, ...)
GetFile ==
    /\ dpc = "idle"
    /\ \E key \in Keys : Downloadable(key) /\ sent' = Append(sent, GetPathsArgs(key, 0))
    /\ dpc' = "paths"
    /\ UNCHANGED <<up, paths, bytes_written, paused, response, cbs, getErrored, resVars,
                   sinkVars, ticks, recheck>>

\* lines 47-50, 127-129: the tracker answers GET_PATHS with an error
GetPathsError ==
    /\ dpc = "paths"
    /\ Callback(Err("tracker"))
    /\ dpc' = "trackerfailed"
    /\ UNCHANGED <<up, sent, paths, bytes_written, paused, response, getErrored, resVars,
                   sinkVars, ticks, recheck>>

\* lines 51-55, 131-135: the tracker answers; the sink is created
GetPathsReply ==
    /\ dpc = "paths"
    /\ \E resp \in Responses : paths' = PathsOf(resp)
    /\ dpc' = "opening"
    /\ UNCHANGED <<up, sent, bytes_written, paused, response, cbs, getErrored, resVars,
                   sinkVars, ticks, recheck>>

\* lines 136-143: 'open'.  url.parse(paths[0]) throws on undefined, and the
\* exception leaves the handler before http.get is reached.
StreamOpen ==
    /\ dpc = "opening"
    /\ dpc' = IF FirstPath(paths) = Undefined THEN "threw" ELSE "requesting"
    /\ UNCHANGED <<up, sent, paths, bytes_written, paused, response, cbs, getErrored,
                   resVars, sinkVars, ticks, recheck>>

\* lines 170-172: the sink cannot be opened
StreamOpenError ==
    /\ dpc = "opening"
    /\ sinkDestroyed' = TRUE
    /\ Callback(Err("sink"))
    /\ dpc' = "openfailed"
    /\ UNCHANGED <<up, sent, paths, bytes_written, paused, response, getErrored, resVars,
                   written, sinkQ, needDrain, sinkEnding, sinkClosed,
                   ticks, recheck>>

\* lines 143-145, 153: the response arrives.  Attaching 'data' switches res to
\* flowing mode and schedules the first flow; the same socket read may already
\* carry k body chunks and the end of the message.
GetResponse ==
    /\ dpc = "requesting"
    /\ ticks = <<>>
    /\ dpc' = "streaming"
    /\ response' = TRUE
    /\ flowing' = TRUE
    /\ ticks' = <<"resume">>
    /\ \E k \in 0..MaxChunks : \E body \in [1..k -> 1..MaxChunkLen] : \E fin \in BOOLEAN :
          /\ ObjectHas(Total(body)) /\ (fin => ~ObjectHas(Total(body) + 1) \/ Serving = {})
          /\ arrived' = Chunked(body)
          /\ resBuf' = Chunked(body)
          /\ complete' = fin
          /\ resEnded' = fin
    /\ UNCHANGED <<up, sent, paths, bytes_written, paused, cbs, getErrored, resDead,
                   endScheduled, sinkVars, recheck>>

\* The flow loop of res (run from the "resume" tick): emit the next buffered
\* chunk as 'data'.  Reading the last chunk after end-of-data schedules 'end'
\* before the chunk is handed to the handler.
FlowDeliver ==
    /\ ticks # <<>> /\ Head(ticks) = "resume"
    /\ flowing /\ resBuf # <<>> /\ ~resDead
    /\ resBuf' = Tail(resBuf)
    /\ LET last == Tail(resBuf) = <<>> /\ resEnded /\ ~endScheduled
       IN  /\ endScheduled' = (endScheduled \/ last)
           /\ DataHandler(Head(resBuf), IF last THEN Append(ticks, "end") ELSE ticks)
    /\ UNCHANGED <<up, sent, dpc, paths, response, getErrored, arrived, resEnded, complete,
                   resDead, sinkEnding, sinkClosed, recheck>>

\* The flow loop stops: res is paused or its buffer is empty.  An empty buffer
\* after end-of-data schedules 'end'.
FlowDone ==
    /\ ticks # <<>> /\ Head(ticks) = "resume"
    /\ ~(flowing /\ resBuf # <<>> /\ ~resDead)
    /\ LET fin == flowing /\ resBuf = <<>> /\ resEnded /\ ~endScheduled /\ ~resDead
       IN  /\ endScheduled' = (endScheduled \/ fin)
           /\ ticks' = IF fin THEN Append(Tail(ticks), "end") ELSE Tail(ticks)
    /\ UNCHANGED <<up, sent, dpc, paths, bytes_written, paused, response, cbs, getErrored,
                   arrived, resBuf, resEnded, complete, flowing, resDead, sinkVars,
                   recheck>>

\* line 153, 162: res emits 'end' and the handler calls finished()
EndEvent ==
    /\ ticks # <<>> /\ Head(ticks) = "end"
    /\ Finished(Tail(ticks))
    /\ UNCHANGED <<up, sent, dpc, paths, bytes_written, paused, response, getErrored,
                   resVars, written, sinkQ, needDrain, sinkDestroyed, sinkClosed>>

\* line 156: the re-check queued by process.nextTick(finished)
FinishedTick ==
    /\ ticks # <<>> /\ Head(ticks) = "finished"
    /\ Finished(Tail(ticks))
    /\ UNCHANGED <<up, sent, dpc, paths, bytes_written, paused, response, getErrored,
                   resVars, written, sinkQ, needDrain, sinkDestroyed, sinkClosed>>

\* A body chunk arrives from the storage node.  A flowing res emits it at
\* once (lines 145-152), a paused one buffers it.
NetChunk ==
    /\ dpc = "streaming" /\ ticks = <<>>
    /\ ~resEnded /\ ~resDead
    /\ Len(arrived) < MaxChunks
    /\ \E n \in 1..MaxChunkLen : LET chunk == NextChunk(arrived, n) IN
          /\ ObjectHas(n)
          /\ arrived' = Append(arrived, chunk)
          /\ IF flowing /\ resBuf = <<>>
                THEN /\ DataHandler(chunk, ticks)
                     /\ UNCHANGED resBuf
                ELSE /\ resBuf' = Append(resBuf, chunk)
                     /\ UNCHANGED <<bytes_written, paused, cbs, flowing, written, sinkQ,
                                    needDrain, sinkDestroyed, ticks>>
    /\ UNCHANGED <<up, sent, dpc, paths, response, getErrored, resEnded, complete, resDead,
                   endScheduled, sinkEnding, sinkClosed, recheck>>

\* The HTTP message has been received in full: res.complete is set and
\* end-of-data is pushed.  Only a flowing res goes on to emit 'end'.
NetComplete ==
    /\ dpc = "streaming" /\ ticks = <<>>
    /\ ~resEnded /\ ~resDead
    /\ ~ObjectHas(1) \/ Serving = {}
    /\ complete' = TRUE
    /\ resEnded' = TRUE
    /\ LET fin == flowing /\ resBuf = <<>> /\ ~endScheduled
       IN  /\ endScheduled' = (endScheduled \/ fin)
           /\ ticks' = IF fin THEN <<"end">> ELSE ticks
    /\ UNCHANGED <<up, sent, dpc, paths, bytes_written, paused, response, cbs, getErrored,
                   arrived, resBuf, flowing, resDead, sinkVars, recheck>>

\* lines 165-168: the GET emits 'error', before the response or in the middle
\* of the body.  Afterwards res is either destroyed or ended short by the
\* closing socket, depending on the Node.js release.
GetError ==
    /\ dpc \in {"requesting", "streaming"} /\ ticks = <<>>
    /\ ~getErrored /\ ~resEnded
    /\ getErrored' = TRUE
    /\ StreamEnd
    /\ Callback(Err("transport"))
    /\ IF dpc = "requesting"
          THEN /\ dpc' = "failed"
               /\ UNCHANGED <<resDead, resEnded, endScheduled, ticks>>
          ELSE /\ UNCHANGED dpc
               /\ \/ /\ resDead' = TRUE
                     /\ UNCHANGED <<resEnded, endScheduled, ticks>>
                  \/ /\ resEnded' = TRUE
                     /\ LET fin == flowing /\ resBuf = <<>> /\ ~endScheduled
                        IN  /\ endScheduled' = (endScheduled \/ fin)
                            /\ ticks' = IF fin THEN <<"end">> ELSE ticks
                     /\ UNCHANGED resDead
    /\ UNCHANGED <<up, sent, paths, bytes_written, paused, response, arrived, resBuf,
                   complete, flowing, written, sinkQ, needDrain, sinkDestroyed,
                   sinkClosed, recheck>>

\* A write to the file completes.  When the buffer empties and a drain is
\* owed, the sink emits 'drain' (lines 173-178), unless it is ending.
Flush ==
    /\ ticks = <<>>
    /\ sinkQ # <<>> /\ ~sinkDestroyed
    /\ sinkQ' = Tail(sinkQ)
    /\ IF Tail(sinkQ) = <<>> /\ needDrain /\ ~sinkEnding
          THEN /\ needDrain' = FALSE
               /\ DrainHandler
          ELSE UNCHANGED <<needDrain, flowing, ticks, paused>>
    /\ UNCHANGED <<up, sent, dpc, paths, bytes_written, response, cbs, getErrored, arrived,
                   resBuf, resEnded, complete, resDead, endScheduled, written,
                   sinkEnding, sinkDestroyed, sinkClosed, recheck>>

\* lines 170-172: a write to the file fails and the sink emits 'error'
SinkError ==
    /\ ticks = <<>>
    /\ sinkQ # <<>> /\ ~sinkDestroyed
    /\ sinkDestroyed' = TRUE
    /\ sinkQ' = <<>>
    /\ Callback(Err("sink"))
    /\ UNCHANGED <<up, sent, dpc, paths, bytes_written, paused, response, getErrored,
                   resVars, written, needDrain, sinkEnding, sinkClosed,
                   ticks, recheck>>

\* After end(), once every accepted chunk is flushed, the sink closes.
SinkClose ==
    /\ ticks = <<>>
    /\ sinkEnding /\ sinkQ = <<>> /\ ~sinkDestroyed /\ ~sinkClosed
    /\ sinkClosed' = TRUE
    /\ UNCHANGED <<up, sent, dpc, paths, bytes_written, paused, response, cbs, getErrored,
                   resVars, written, sinkQ, needDrain, sinkEnding,
                   sinkDestroyed, ticks, recheck>>

\* lines 193-201: storeFile(key, storage_class, local, callback) sends CREATE_OPEN
StoreFile(c) ==
    /\ dpc = "idle"
    /\ up[c].pc = "idle"
    /\ \E key \in Keys : \E class \in Classes :
          up' = [up EXCEPT ![c].pc = "open", ![c].key = key, ![c].class = class,
                           ![c].sent = <<CreateOpenArgs(key, class)>>]
    /\ UNCHANGED <<sent, dvars>>

\* lines 202-204: CREATE_OPEN fails
CreateOpenError(c) ==
    /\ up[c].pc = "open"
    /\ up' = [up EXCEPT ![c].pc = "aborted",
                        ![c].cbs = Append(@, Err("tracker"))]
    /\ UNCHANGED <<sent, dvars>>

\* lines 205-207: CREATE_OPEN succeeds and fs.stat is issued
CreateOpenReply(c) ==
    /\ up[c].pc = "open"
    /\ up' = [up EXCEPT ![c].pc = "stat", ![c].txn = Txn(c)]
    /\ UNCHANGED <<sent, dvars>>

\* lines 208-210: fs.stat fails
StatError(c) ==
    /\ up[c].pc = "stat"
    /\ up' = [up EXCEPT ![c].pc = "aborted",
                        ![c].cbs = Append(@, Err("source"))]
    /\ UNCHANGED <<sent, dvars>>

\* lines 212-229: the PUT is created with Content-Length stat.size and the
\* source is piped into it
StatReply(c) ==
    /\ up[c].pc = "stat"
    /\ \E size \in 0..MaxSize :
          up' = [up EXCEPT ![c].pc = "streaming", ![c].size = size,
                           ![c].srcLeft = size, ![c].piped = TRUE]
    /\ UNCHANGED <<sent, dvars>>

\* line 229: pipe hands a chunk of the source to the request
SourceData(c) ==
    /\ up[c].pc = "streaming"
    /\ up[c].piped /\ up[c].srcLeft > 0
    /\ up' = [up EXCEPT ![c].srcLeft = @ - 1, ![c].body = @ + 1]
    /\ UNCHANGED <<sent, dvars>>

\* lines 230-239 with the handler attached to the first 'data' instead of
\* 'end': CREATE_CLOSE goes out while the source still has chunks to stream.
SourceEndEarly(c) ==
    /\ up[c].pc = "streaming"
    /\ up[c].piped /\ ~up[c].srcEnded
    /\ up' = [up EXCEPT ![c].srcEnded = TRUE, ![c].reqEnded = TRUE,
                        ![c].close = "sent",
                        ![c].sent = Append(@, CreateCloseArgs(up[c].key, up[c].class,
                                                              up[c].txn))]
    /\ UNCHANGED <<sent, dvars>>

\* lines 232-238 with the CREATE_OPEN response kept in a variable shared by
\* all calls: the close echoes the identifiers of whichever open answered.
SourceEndSharedResponse(c) ==
    /\ up[c].pc = "streaming"
    /\ up[c].piped /\ up[c].srcLeft = 0 /\ ~up[c].srcEnded
    /\ \E d \in Calls :
          /\ up[d].txn # Undefined
          /\ up' = [up EXCEPT ![c].srcEnded = TRUE, ![c].reqEnded = TRUE,
                              ![c].close = "sent",
                              ![c].sent = Append(@, CreateCloseArgs(up[c].key, up[c].class,
                                                                    up[d].txn))]
    /\ UNCHANGED <<sent, dvars>>

\* lines 230-239: the source emits 'end': the request is ended and CREATE_CLOSE
\* is sent in the same handler
SourceEnd(c) ==
    /\ up[c].pc = "streaming"
    /\ up[c].piped /\ up[c].srcLeft = 0 /\ ~up[c].srcEnded
    /\ up' = [up EXCEPT ![c].srcEnded = TRUE, ![c].reqEnded = TRUE,
                        ![c].close = "sent",
                        ![c].sent = Append(@, CreateCloseArgs(up[c].key, up[c].class,
                                                              up[c].txn))]
    /\ UNCHANGED <<sent, dvars>>

\* lines 224-226: the PUT emits 'error'; pipe detaches the source from a
\* failed destination, so a source that has not ended stops there
RequestError(c) ==
    /\ up[c].pc = "streaming"
    /\ ~up[c].reqErrored /\ ~up[c].putAcked
    /\ up' = [up EXCEPT ![c].reqErrored = TRUE, ![c].piped = FALSE,
                        ![c].cbs = Append(@, Err("transport"))]
    /\ UNCHANGED <<sent, dvars>>

\* The storage node acknowledges the PUT once it holds the whole body.  No
\* listener is attached for the response (line 223).
PutResponse(c) ==
    /\ up[c].pc = "streaming"
    /\ up[c].reqEnded /\ ~up[c].reqErrored /\ ~up[c].putAcked
    /\ up[c].body = up[c].size
    /\ up' = [up EXCEPT ![c].putAcked = TRUE]
    /\ UNCHANGED <<sent, dvars>>

\* lines 239-243 with the return of line 241 left out: the error is reported
\* and the success line runs as well.
CreateCloseErrorFallsThrough(c) ==
    /\ up[c].close = "sent"
    /\ up' = [up EXCEPT ![c].close = "failed",
                        ![c].cbs = Append(Append(@, Err("tracker")), Ok(up[c].size))]
    /\ UNCHANGED <<sent, dvars>>

\* lines 239-242: CREATE_CLOSE fails
CreateCloseError(c) ==
    /\ up[c].close = "sent"
    /\ up' = [up EXCEPT ![c].close = "failed",
                        ![c].cbs = Append(@, Err("tracker"))]
    /\ UNCHANGED <<sent, dvars>>

\* line 243: CREATE_CLOSE succeeds
CreateCloseReply(c) ==
    /\ up[c].close = "sent"
    /\ up' = [up EXCEPT ![c].close = "done",
                        ![c].cbs = Append(@, Ok(up[c].size))]
    /\ UNCHANGED <<sent, dvars>>

Next ==
    \/ GetFile
    \/ GetPathsError
    \/ GetPathsReply
    \/ StreamOpen
    \/ StreamOpenError
    \/ GetResponse
    \/ FlowDeliver
    \/ FlowDone
    \/ EndEvent
    \/ FinishedTick
    \/ NetChunk
    \/ NetComplete
    \/ GetError
    \/ Flush
    \/ SinkError
    \/ SinkClose
    \/ \E c \in Calls : StoreFile(c)
    \/ \E c \in Calls : CreateOpenError(c)
    \/ \E c \in Calls : CreateOpenReply(c)
    \/ \E c \in Calls : StatError(c)
    \/ \E c \in Calls : StatReply(c)
    \/ \E c \in Calls : SourceData(c)
    \/ \E c \in Calls : SourceEnd(c)
    \/ \E c \in Calls : RequestError(c)
    \/ \E c \in Calls : PutResponse(c)
    \/ \E c \in Calls : CreateCloseError(c)
    \/ \E c \in Calls : CreateCloseReply(c)

Spec == Init /\ [][Next]_vars

\* The event loop runs every queued tick and every completed I/O operation;
\* nothing obliges the tracker, the network or the disk to fail.
Fairness ==
    /\ WF_vars(GetPathsReply) /\ WF_vars(StreamOpen) /\ WF_vars(GetResponse)
    /\ WF_vars(FlowDeliver) /\ WF_vars(FlowDone)
    /\ WF_vars(EndEvent) /\ WF_vars(FinishedTick)
    /\ WF_vars(NetComplete) /\ WF_vars(Flush) /\ WF_vars(SinkClose)
    /\ \A c \in Calls :
          /\ WF_vars(CreateOpenReply(c)) /\ WF_vars(StatReply(c))
          /\ WF_vars(SourceData(c)) /\ WF_vars(SourceEnd(c))
          /\ WF_vars(PutResponse(c)) /\ WF_vars(CreateCloseReply(c))

FairSpec == Spec /\ Fairness

\* ------------------------------------------------------------- properties

\* getFile's callback has been invoked with success / with the given error
Succeeded == \E i \in 1..Len(cbs) : cbs[i].err = "null"
Reported(e) == \E i \in 1..Len(cbs) : cbs[i].err = e

\* A transport or sink error has occurred in the download.
Faulted == getErrored \/ sinkDestroyed

\* The 'end' handler found the download suspended and queued a re-check.
EndDeferred == \E i \in 1..Len(ticks) : ticks[i] = "finished"

\* C1: the sink is never ended while the transfer is suspended (paused = true),
\* on the end-of-stream path and on the transport-error path alike: every step
\* that ends the sink starts from paused = false.
C1_SinkNeverEndedWhileSuspended ==
    [][(~sinkEnding /\ sinkEnding') => ~paused]_vars

\* C2: a download with no transport or sink error, however often the sink
\* saturates, eventually invokes the callback with success and a byte count
\* equal to the payload length.
C2_SaturatedDownloadCompletes ==
    (dpc = "requesting") ~>
        (Faulted \/ (complete /\ \E i \in 1..Len(cbs) : cbs[i] = Ok(SumSeq(arrived))))

\* C3: when 'end' arrives while suspended, completion is deferred, not dropped:
\* the sink is not closed and nothing is reported while the suspension lasts,
\* and the deferred completion eventually runs (the re-check does not keep the
\* drain signal from being handled).
C3_DeferredCompletionRuns ==
    /\ [][EndDeferred => (sinkEnding' = sinkEnding /\ cbs' = cbs) \/ ~paused]_vars
    /\ EndDeferred ~> (Faulted \/ (sinkEnding /\ Succeeded))

\* C4: backpressure.  A chunk is delivered and written only while the download
\* is not suspended; a write that leaves the sink at or above its mark suspends
\* the source in the same handler; while paused the source is not flowing; and
\* the source goes from suspended to flowing only in a step that handles a
\* drain signal owed by the sink.
C4_Backpressure ==
    [][ /\ (bytes_written' # bytes_written => ~paused /\ flowing)
        /\ (written' # written /\ SumSeq(sinkQ') >= HighWaterMark => paused' /\ ~flowing')
        /\ (paused' => ~flowing')
        /\ (response /\ ~flowing /\ flowing' => paused /\ ~paused' /\ needDrain /\ ~needDrain')
      ]_vars

\* C4 witness: the source is suspended after a saturating write while a further
\* chunk waits in the response.
C4_Witness == paused /\ ~flowing /\ needDrain /\ written # <<>> /\ resBuf # <<>>

\* C5: CREATE_CLOSE is sent only after the storage node acknowledged the PUT.
C5_CloseAfterPutAck ==
    \A c \in Calls : up[c].close # "none" => up[c].putAcked

\* C6: once the PUT has failed, the error is reported, no success is ever
\* reported for the call, and CREATE_CLOSE is not sent afterwards.
C6_PutErrorAborts ==
    /\ [](\A c \in Calls : up[c].reqErrored =>
            /\ \E i \in 1..Len(up[c].cbs) : up[c].cbs[i].err = "transport"
            /\ \A i \in 1..Len(up[c].cbs) : up[c].cbs[i].err # "null")
    /\ [][\A c \in Calls : up[c].reqErrored => up'[c].sent = up[c].sent]_vars

\* C7: the callback of a getFile call is invoked at most once.
C7_DownloadReportsOnce == Len(cbs) <= 1

\* C8: the callback of a storeFile call is invoked at most once.
C8_UploadReportsOnce == \A c \in Calls : Len(up[c].cbs) <= 1

\* C9: a download whose GET_PATHS succeeded with zero locations ends by
\* reporting not-found: once it has ended, the callback has been invoked with
\* a not-found error and never with success.
C9_ZeroLocationsNotFound ==
    (Len(paths) = 0 /\ dpc \in {"threw", "openfailed"}) =>
        (Reported("notfound") /\ ~Succeeded)

\* C10: when CREATE_CLOSE fails after the body has been streamed, that error
\* is reported, no success or byte count is reported, and this layer sends no
\* DELETE.
C10_CloseFailureReported ==
    \A c \in Calls : up[c].close = "failed" =>
        /\ up[c].body = up[c].size /\ up[c].srcEnded
        /\ \E i \in 1..Len(up[c].cbs) : up[c].cbs[i] = Err("tracker")
        /\ \A i \in 1..Len(up[c].cbs) :
              up[c].cbs[i].err # "null" /\ up[c].cbs[i].bytes = NoBytes
        /\ \A i \in 1..Len(up[c].sent) : up[c].sent[i].cmd # "DELETE"

\* C10 witness: CREATE_CLOSE has failed for a non-empty file whose body was sent.
C10_Witness ==
    \E c \in Calls : up[c].close = "failed" /\ up[c].size > 0 /\ up[c].body = up[c].size

\* The sink holds no open file any more / the response stream is finished.
SinkReleased == sinkClosed \/ sinkDestroyed \/ dpc = "trackerfailed"
ResReleased ==
    \/ ~response
    \/ resDead
    \/ endScheduled /\ \A i \in 1..Len(ticks) : ticks[i] # "end"

\* C11: a transport error of the GET aborts the download: the sink is ended,
\* the error is reported, no success or byte count is reported for the call,
\* and nothing more is written to the sink after the error.
C11_TransportErrorAborts ==
    /\ [](getErrored =>
            /\ sinkEnding
            /\ Reported("transport")
            /\ \A i \in 1..Len(cbs) : cbs[i].err # "null" /\ cbs[i].bytes = NoBytes)
    /\ [][getErrored => written' = written]_vars

\* C12: every exit path releases both resources: after a sink error no
\* further data is consumed from the response, and once an outcome has been
\* reported the sink and the response stream are both eventually closed.
C12_ResourcesReleased ==
    /\ [][Reported("sink") => bytes_written' = bytes_written]_vars
    /\ (cbs # <<>>) ~> (SinkReleased /\ ResReleased)

\* C13: success is reported only after every written byte has been flushed
\* and the sink has finished closing.
C13_SuccessAfterFlush ==
    Succeeded => (sinkClosed /\ sinkQ = <<>>)

\* The chunks res has emitted as 'data' so far: what arrived and is no longer buffered.
Delivered == SubSeq(arrived, 1, Len(arrived) - Len(resBuf))

\* C14: whenever success is reported, the byte count equals the total length
\* of the chunks the sink accepted through write, and these are exactly the
\* chunks the source delivered, in order: none is counted without being
\* written, none written without being counted.
C14_CountEqualsWritten ==
    \A i \in 1..Len(cbs) : cbs[i].err = "null" =>
        /\ cbs[i].bytes = SumSeq(written)
        /\ written = Delivered
        /\ bytes_written = cbs[i].bytes

\* C14 witness: success reported for a body of at least two chunks.
C14_Witness == Succeeded /\ Len(written) >= 2 /\ ~Faulted

\* C15: the phases of an upload occur in order and at most once: CREATE_OPEN
\* is the first and only open of a call and has succeeded before a byte goes
\* to the storage node; CREATE_CLOSE is sent at most once, after a successful
\* CREATE_OPEN and after the whole source has been streamed.
C15_PhasesInOrder ==
    \A c \in Calls :
        /\ (up[c].pc = "idle") = (up[c].sent = <<>>)
        /\ Len(up[c].sent) <= 2
        /\ \A i \in 1..Len(up[c].sent) :
              up[c].sent[i].cmd = IF i = 1 THEN "CREATE_OPEN" ELSE "CREATE_CLOSE"
        /\ (up[c].body > 0 \/ up[c].piped \/ up[c].reqEnded) => up[c].txn # Undefined
        /\ (up[c].close # "none") = (Len(up[c].sent) = 2)
        /\ Len(up[c].sent) = 2 =>
              /\ up[c].txn # Undefined
              /\ up[c].srcEnded /\ up[c].srcLeft = 0 /\ up[c].body = up[c].size

\* C15 witness: CREATE_CLOSE has been sent for a file of two chunks or more.
C15_Witness ==
    \E c \in Calls : Len(up[c].sent) = 2 /\ up[c].size >= 2

\* C16: the CREATE_CLOSE of an upload carries the devid, fid and path its own
\* CREATE_OPEN returned, with the key and class passed to storeFile, also
\* when two uploads are in flight.
C16_CloseEchoesOpen ==
    \A c \in Calls : Len(up[c].sent) = 2 =>
        /\ up[c].sent[2].txn = Txn(c)
        /\ up[c].sent[2].key = up[c].sent[1].key
        /\ up[c].sent[2].class = up[c].sent[1].class
        /\ up[c].sent[2] = CreateCloseArgs(up[c].key, up[c].class, up[c].txn)

\* C16 witness: two uploads of different keys have both sent CREATE_CLOSE
\* and neither has been answered yet.
C16_Witness ==
    \E c, d \in Calls :
        /\ c # d /\ up[c].key # up[d].key
        /\ up[c].close = "sent" /\ up[d].close = "sent"

\* C17: getPaths reports a success sequence only when it is exactly
\* path1..pathN in index order with every entry present.
C17_PathsComplete ==
    dpc \notin {"idle", "paths", "trackerfailed"} =>
        \A i \in 1..Len(paths) : paths[i] = Urls[i]

\* C19: the GET_PATHS request of a download carries noverify = "1".
C19_DownloadSkipsVerification ==
    dpc # "idle" => sent[1].noverify = "1"

\* C19 (amended): the GET_PATHS request of a download is the only command it
\* sends and carries noverify = "0": getFile asks the tracker to verify.
C19_DownloadVerifies ==
    dpc # "idle" =>
        /\ Len(sent) = 1
        /\ sent[1].cmd = "GET_PATHS"
        /\ sent[1].noverify = "0"

\* C19 witness: a download that has resolved its paths and is streaming.
C19_Witness == dpc = "streaming" /\ Len(sent) = 1 /\ sent[1].cmd = "GET_PATHS"

\* C20: before completion, paused is true exactly when the response stream
\* is suspended.
C20_PausedMatchesSource ==
    (response /\ cbs = <<>> /\ ~endScheduled /\ ~resDead) => (paused = ~flowing)

RECURSIVE BytesOf(_, _)
BytesOf(chunks, obj) ==
    IF chunks = <<>> THEN <<>>
    ELSE SubSeq(obj, Head(chunks).off + 1, Head(chunks).off + Head(chunks).len)
            \o BytesOf(Tail(chunks), obj)

\* C18: an upload of a non-empty file that reports success, followed by a
\* fault-free download of the same key that reports success, leaves in the
\* sink exactly the bytes of the file in order, and both reported counts
\* equal the length of the file.
C18_RoundTrip ==
    \A c \in Serving : (up[c].size > 0 /\ Succeeded /\ ~Faulted) =>
        /\ BytesOf(written, PutBody(c)) = FileBytes(c)
        /\ up[c].cbs = <<Ok(Len(FileBytes(c)))>>
        /\ \A i \in 1..Len(cbs) : cbs[i].err = "null" => cbs[i].bytes = Len(FileBytes(c))

\* C18 witness: a file of two bytes or more was uploaded and then downloaded
\* in two chunks or more, both calls reporting success.
C18_Witness ==
    \E c \in Serving :
        /\ up[c].size >= 2 /\ up[c].cbs # <<>>
        /\ Succeeded /\ ~Faulted /\ Len(written) >= 2
====
